---- MODULE Spec2Model ----
(***************************************************************************)
(* Model of lambda_source/index.py: the Lambda function that starts and    *)
(* stops one RDS instance, keeps its state history in a DynamoDB table     *)
(* and re-arms itself through one-shot EventBridge rules.                   *)
(*                                                                         *)
(* Time is counted in ticks, SubSec ticks to the second, so that the       *)
(* seconds-precision TIMESTAMP_FORMAT and the minute-precision cron        *)
(* expression really drop something.  A Timestamp string is modelled by    *)
(* the whole number of seconds it spells (the format is fixed width, so    *)
(* the string order DynamoDB sorts by is the order of these numbers).      *)
(***************************************************************************)
EXTENDS Integers, Sequences, FiniteSets, TLC

VARIABLES clock, table, rds_status, rules, last, inv

vars == <<clock, table, rds_status, rules, last, inv>>

(* ------------------------------ bounds --------------------------------- *)
SubSec == 2
MaxInv == 3
MaxOffset == 130
MaxCycleInv == 4
MaxLogWrites == 3
MaxFaultInv == 2

(* -------------------------- program constants -------------------------- *)
MAX_ROWS == 10
STOP_AFTER_MINUTES == 30
START_AFTER_DAYS == 6

SecTicks == SubSec
MinuteTicks == 60 * SecTicks
DayTicks == 1440 * MinuteTicks

\* timedelta(minutes = m), timedelta(days = d)
timedelta_minutes(m) == m * MinuteTicks
timedelta_days(d) == d * DayTicks

\* The instant of the first trigger in the model: a whole number of days, late
\* enough for the bootstrap record to have a positive Timestamp.
Epoch == timedelta_days(START_AFTER_DAYS + 4)

\* datetime.strftime(TIMESTAMP_FORMAT): seconds precision, the fraction is dropped.
strftime(t) == t \div SecTicks
\* datetime.strptime(s, TIMESTAMP_FORMAT)
strptime(s) == s * SecTicks

\* timedelta.days: whole days, rounded down.
timedelta_days_of(td) == td \div DayTicks
\* timedelta.total_seconds() >= n, on ticks
total_seconds_ge(td, n) == td >= n * SecTicks

(* ------------------------------ the table ------------------------------ *)
\* The rows of the partition "RDSControl": records [Timestamp, State]; the key of
\* a row is (StateKey, Timestamp), so put_item replaces a row with the same
\* Timestamp.  A store is the rows together with the log of the calls made on it.
NoStore(rows) == [rows |-> rows, log |-> << >>]

put_item(store, item) ==
  LET same == {r \in store.rows : r.Timestamp = item.Timestamp}
  IN  [rows |-> (store.rows \ same) \cup {item},
       log  |-> Append(store.log, [op |-> "put", item |-> item, replaced |-> same])]

delete_item(store, ts) ==
  [rows |-> {r \in store.rows : r.Timestamp # ts},
   log  |-> Append(store.log,
                   [op |-> "delete",
                    item |-> CHOOSE r \in store.rows : r.Timestamp = ts,
                    replaced |-> {}])]

\* Mutant: the query scans forward and returns the first row.
LatestItem_forward(rows) ==
  CHOOSE r \in rows : \A q \in rows : q.Timestamp >= r.Timestamp

\* query(ScanIndexForward=False, Limit=1)["Items"][0]
LatestItem(rows) == CHOOSE r \in rows : \A q \in rows : q.Timestamp <= r.Timestamp
\* query(ScanIndexForward=True, Limit=1)["Items"][0]
OldestItem(rows) == CHOOSE r \in rows : \A q \in rows : q.Timestamp >= r.Timestamp
\* query(Select="COUNT")["Count"]
QueryCount(rows) == Cardinality(rows)

\* Mutant: the oldest row is deleted as soon as the bound is reached.
OverBound_early(row_count) == row_count >= MAX_ROWS

\* if row_count > MAX_ROWS
OverBound(row_count) == row_count > MAX_ROWS

log_state_change(store, new_state, timestamp) ==
  LET put == put_item(store, [Timestamp |-> strftime(timestamp), State |-> new_state])
      row_count == QueryCount(put.rows)
  IN  IF OverBound(row_count)
      THEN delete_item(put, OldestItem(put.rows).Timestamp)
      ELSE put

\* get_latest_state: the latest row, or the bootstrap row which it inserts.
\* now2 is the second reading of the clock, taken inside the function.
BootstrapItem(now2) ==
  [Timestamp |-> strftime(now2 - timedelta_days(START_AFTER_DAYS + 1)),
   State |-> "stopped"]

get_latest_state(store, now2) ==
  IF store.rows # {}
  THEN [item |-> LatestItem(store.rows), store |-> store, boot |-> FALSE]
  ELSE [item |-> BootstrapItem(now2),
        store |-> put_item(store, BootstrapItem(now2)),
        boot |-> TRUE]

(* --------------------------- the RDS instance -------------------------- *)
Statuses == {"stopped", "starting", "available", "stopping"}

\* Mutant: a failed describe call falls back to "stopped".
get_rds_instance_current_status_fallback(status, describe_ok) ==
  IF describe_ok THEN status ELSE "stopped"

\* get_rds_instance_current_status: the reported status, "unknown" when
\* describe_db_instances raises.
get_rds_instance_current_status(status, describe_ok) ==
  IF describe_ok THEN status ELSE "unknown"

(* ------------------------------ the rules ------------------------------ *)
RuleNames == {"stop-instance-lambda-trigger", "start-instance-lambda-trigger"}
NoRule == [M |-> -1, H |-> -1, D |-> -1]

\* Mutant: the minute is rounded up.
cron_expression_up(future_time) ==
  LET s == (future_time + 60 * SecTicks - 1) \div SecTicks
  IN  [M |-> (s \div 60) % 60, H |-> (s \div 3600) % 24, D |-> s \div 86400]

\* future_time.strftime("cron(%M %H %d %m ? %Y)"): minute, hour and the date; the
\* date (%d %m %Y) is modelled by the number of the day.
cron_expression(future_time) ==
  LET s == future_time \div SecTicks
  IN  [M |-> (s \div 60) % 60, H |-> (s \div 3600) % 24, D |-> s \div 86400]

\* The one instant a cron expression with a year matches: the start of that minute.
FireTime(c) == ((c.D * 24 + c.H) * 60 + c.M) * MinuteTicks

rule_name(action) ==
  IF action = "stop-instance" THEN "stop-instance-lambda-trigger"
  ELSE "start-instance-lambda-trigger"

schedule_next_event(rls, action, minutes, source_time) ==
  [rls EXCEPT ![rule_name(action)] =
      cron_expression(source_time + timedelta_minutes(minutes))]

(* ----------------------------- the handler ----------------------------- *)
\* if current_rds_state != state
Drifted(current_rds_state, state) == current_rds_state # state

\* Mutant: the drift write is made but the pass keeps the persisted state.
AdoptedState_kept(current_rds_state, state) == state

\* state = current_rds_state, after the drift write
AdoptedState(current_rds_state, state) ==
  IF Drifted(current_rds_state, state) THEN current_rds_state ELSE state

\* Mutant: the elapsed time is not looked at.
StartCondition_always(state, time_since_last_action) == state = "stopped"

\* Mutant: the threshold is exclusive.
StartCondition_strict(state, time_since_last_action) ==
  /\ state = "stopped"
  /\ timedelta_days_of(time_since_last_action) > START_AFTER_DAYS

\* if state == "stopped" and time_since_last_action.days >= START_AFTER_DAYS
StartCondition(state, time_since_last_action) ==
  /\ state = "stopped"
  /\ timedelta_days_of(time_since_last_action) >= START_AFTER_DAYS

\* Mutant: the threshold is exclusive.
StopCondition_strict(state, time_since_last_action) ==
  /\ state = "available"
  /\ time_since_last_action > STOP_AFTER_MINUTES * 60 * SecTicks

\* Mutant: the elapsed time is not looked at.
StopCondition_always(state, time_since_last_action) == state = "available"

\* elif state == "available" and total_seconds() >= STOP_AFTER_MINUTES * 60
StopCondition(state, time_since_last_action) ==
  /\ state = "available"
  /\ total_seconds_ge(time_since_last_action, STOP_AFTER_MINUTES * 60)

Branch(state, time_since_last_action) ==
  IF StartCondition(state, time_since_last_action) THEN "start"
  ELSE IF StopCondition(state, time_since_last_action) THEN "stop"
  ELSE "none"

\* "state" of the returned payload: the local variable state
ReturnedState(state, branch) == state

(* --------------------- the handler with failing calls ------------------ *)
\* The calls that may raise in a pass: the query or the bootstrap insert of
\* get_latest_state, describe_db_instances, start_db_instance or
\* stop_db_instance, put_rule, publish.
Faults ==
  [latest_ok : BOOLEAN, describe_ok : BOOLEAN, cmd_ok : BOOLEAN,
   sched_ok : BOOLEAN, sns_ok : BOOLEAN]

\* The exception get_latest_state catches.
ExceptionValue == [Exception |-> "ClientError"]

\* Mutant: a failed read falls back to the bootstrap default, without writing it.
FailedLatest_default(store, now2) ==
  [item |-> BootstrapItem(now2), store |-> store, boot |-> FALSE]

\* except Exception as e: logger.error(...); return e
FailedLatest(store, now2) ==
  [item |-> ExceptionValue, store |-> store, boot |-> FALSE]

\* get_latest_state with its try/except: nothing is written when a call raises.
get_latest_state_or_error(store, now2, latest_ok) ==
  IF latest_ok THEN get_latest_state(store, now2) ELSE FailedLatest(store, now2)

\* last_state["State"], last_state["Timestamp"]: an exception has no items, the
\* subscript raises TypeError and the handler does not catch it.
Subscriptable(last_state) == DOMAIN last_state = {"Timestamp", "State"}

\* Mutant: the exception of put_rule is not caught.
SchedulePropagates_uncaught(sched_ok) == ~sched_ok

\* schedule_next_event: try/except Exception around put_rule and put_targets
SchedulePropagates(sched_ok) == FALSE

\* publish_sns_message: try/except Exception around publish
PublishPropagates(sns_ok) == FALSE

NoResult == [state |-> "none", timestamp |-> 0]

\* One pass of lambda_handler in which the calls named in F raise.  cmds, sched
\* and sns are the calls made, done the commands that succeeded.
HandlerF(rows, rls, status, F, now, now2) ==
  LET g == get_latest_state_or_error(NoStore(rows), now2, F.latest_ok)
  IN  IF ~Subscriptable(g.item)
      THEN [boot |-> FALSE, read |-> g.item, live |-> "none", state |-> "none",
            elapsed |-> 0, branch |-> "none", rows |-> g.store.rows,
            ops |-> g.store.log, cmds |-> << >>, done |-> << >>, rules |-> rls,
            sched |-> << >>, sns |-> << >>, delivered |-> << >>,
            crashed |-> TRUE, result |-> NoResult]
      ELSE
  LET last_state == g.item
      last_action_time == strptime(last_state.Timestamp)
      time_since_last_action == now - last_action_time
      current_rds_state == get_rds_instance_current_status(status, F.describe_ok)
      s1 == IF Drifted(current_rds_state, last_state.State)
            THEN log_state_change(g.store, current_rds_state, now)
            ELSE g.store
      state == AdoptedState(current_rds_state, last_state.State)
      branch == Branch(state, time_since_last_action)
      cmd_raised == branch # "none" /\ ~F.cmd_ok
      \* start: the record is written before the command; stop: after it
      s2 == CASE branch = "start" -> log_state_change(s1, "available", now)
              [] branch = "stop" /\ ~cmd_raised -> log_state_change(s1, "stopped", now)
              [] OTHER -> s1
      cmds == CASE branch = "start" -> <<"start_db_instance">>
                [] branch = "stop"  -> <<"stop_db_instance">>
                [] OTHER -> << >>
      sched_called == branch # "none" /\ ~cmd_raised
      sched_raised == sched_called /\ SchedulePropagates(F.sched_ok)
      sns_called == ~cmd_raised /\ ~sched_raised
      sns_raised == sns_called /\ PublishPropagates(F.sns_ok)
      crashed == cmd_raised \/ sched_raised \/ sns_raised
      subject == CASE branch = "start" -> "RDS Manager - Instance Started"
                   [] branch = "stop"  -> "RDS Manager - Instance Stopped"
                   [] OTHER -> "RDS Manager - No Action Taken"
  IN  [boot    |-> g.boot,
       read    |-> last_state,
       live    |-> current_rds_state,
       state   |-> state,
       elapsed |-> time_since_last_action,
       branch  |-> branch,
       rows    |-> s2.rows,
       ops     |-> s2.log,
       cmds    |-> cmds,
       done    |-> IF cmd_raised THEN << >> ELSE cmds,
       rules   |-> IF ~sched_called \/ ~F.sched_ok THEN rls
                   ELSE IF branch = "start"
                   THEN schedule_next_event(rls, "stop-instance",
                                            STOP_AFTER_MINUTES, now)
                   ELSE schedule_next_event(rls, "start-instance",
                                            START_AFTER_DAYS * 1440, now),
       sched   |-> IF ~sched_called THEN << >>
                   ELSE IF branch = "start" THEN <<"stop-instance-lambda-trigger">>
                   ELSE <<"start-instance-lambda-trigger">>,
       sns     |-> IF sns_called THEN <<subject>> ELSE << >>,
       delivered |-> IF sns_called /\ F.sns_ok THEN <<subject>> ELSE << >>,
       crashed |-> crashed,
       result  |-> IF crashed THEN NoResult
                   ELSE [state |-> ReturnedState(state, branch),
                         timestamp |-> strftime(now)]]

\* One pass of lambda_handler over the rows, the rules and the live status, in
\* which no call raises but, possibly, describe_db_instances; now is the reading
\* of the clock on line 30, now2 the one inside get_latest_state.
Handler(rows, rls, status, describe_ok, now, now2) ==
  HandlerF(rows, rls, status,
           [latest_ok |-> TRUE, describe_ok |-> describe_ok, cmd_ok |-> TRUE,
            sched_ok |-> TRUE, sns_ok |-> TRUE],
           now, now2)

\* A pass that called neither the table nor the instance.
Quiet(h) == h.ops = << >> /\ h.cmds = << >>

\* The instance after the commands of a pass: start_db_instance takes a stopped
\* instance to "starting", stop_db_instance an available one to "stopping".
AfterCommands(status, cmds) ==
  IF cmds = <<"start_db_instance">> THEN "starting"
  ELSE IF cmds = <<"stop_db_instance">> THEN "stopping"
  ELSE status

NoInvocation ==
  [trigger |-> "none", now |-> 0, describe_ok |-> TRUE, before |-> {},
   status |-> "stopped",
   boot |-> FALSE, read |-> [Timestamp |-> 0, State |-> "none"], live |-> "none",
   state |-> "none", elapsed |-> 0, branch |-> "none", rows |-> {}, ops |-> << >>,
   cmds |-> << >>, rules |-> [n \in RuleNames |-> NoRule], sched |-> << >>,
   sns |-> << >>, result |-> [state |-> "none", timestamp |-> 0], quiet |-> 0,
   done |-> << >>, delivered |-> << >>, crashed |-> FALSE,
   act |-> [cmd |-> "none", at |-> 0], prev_act |-> [cmd |-> "none", at |-> 0],
   failed |-> "none", prev_failed |-> "none",
   trans |-> [kind |-> "none", rec |-> [Timestamp |-> 0, State |-> "none"]],
   prev_trans |-> [kind |-> "none", rec |-> [Timestamp |-> 0, State |-> "none"]],
   faults |-> {}]

\* What is kept of a pass for the record: all but the rows and the rules,
\* which are the table and the rules after it.
Observed(h) == [k \in DOMAIN h \ {"rows", "rules"} |-> h[k]]

\* What the passes so far have left behind: act, the last command that succeeded
\* and its instant; failed, the command that raised in the last pass; trans,
\* the record the last transition branch wrote.
HistoryAfter(h, F, now) ==
  [act |-> IF h.done # << >> THEN [cmd |-> h.done[1], at |-> now] ELSE last.act,
   prev_act |-> last.act,
   failed |-> IF h.cmds # << >> /\ h.done = << >> THEN h.cmds[1] ELSE "none",
   prev_failed |-> last.failed,
   trans |-> IF h.branch = "start"
             THEN [kind |-> "start",
                   rec |-> [Timestamp |-> strftime(now), State |-> "available"]]
             ELSE IF h.branch = "stop" /\ h.done # << >>
             THEN [kind |-> "stop",
                   rec |-> [Timestamp |-> strftime(now), State |-> "stopped"]]
             ELSE last.trans,
   prev_trans |-> last.trans,
   \* the calls that did raise in this pass
   faults |-> {c \in {"latest"} : ~F.latest_ok}
              \cup {c \in {"describe"} : F.latest_ok /\ ~F.describe_ok}
              \cup {c \in {"cmd"} : h.cmds # << >> /\ h.done = << >>}
              \cup {c \in {"sched"} : h.sched # << >> /\ ~F.sched_ok}
              \cup {c \in {"sns"} : h.sns # << >> /\ ~F.sns_ok}]

\* lambda_handler(event, context), run at the instant now by the given trigger.
lambda_handler(trigger, now, lag, describe_ok) ==
  \E h \in {Handler(table, rules, rds_status, describe_ok, now, now + lag)} :
      /\ clock' = now
      /\ table' = h.rows
      /\ rules' = h.rules
      /\ rds_status' = AfterCommands(rds_status, h.cmds)
      /\ inv' = inv + 1
      /\ last' = [trigger |-> trigger, now |-> now, describe_ok |-> describe_ok,
                  before |-> table, status |-> rds_status,
                  quiet |-> IF Quiet(h) THEN last.quiet + 1 ELSE 0]
                 @@ HistoryAfter(h, [latest_ok |-> TRUE, describe_ok |-> describe_ok,
                                     cmd_ok |-> TRUE, sched_ok |-> TRUE,
                                     sns_ok |-> TRUE], now)
                 @@ Observed(h)

(* --------------------------- the environment --------------------------- *)
\* Delays between one trigger and the next (manual or periodic invocations come
\* at any time): a tick, and the two thresholds, each just missed and just met.
Delays ==
  {1,
   timedelta_minutes(STOP_AFTER_MINUTES) - 1, timedelta_minutes(STOP_AFTER_MINUTES),
   timedelta_days(START_AFTER_DAYS) - 1, timedelta_days(START_AFTER_DAYS)}

\* The second reading of the clock is the first one or a tick later.
Lags == {0, 1}

Invoke ==
  /\ inv < MaxInv
  /\ \E d \in Delays, lag \in Lags, describe_ok \in BOOLEAN :
       /\ (lag = 0 \/ table = {})
       /\ lambda_handler("manual", clock + d, lag, describe_ok)

\* The instance finishes a transition.
Settle ==
  /\ rds_status \in {"starting", "stopping"}
  /\ rds_status' = IF rds_status = "starting" THEN "available" ELSE "stopped"
  /\ UNCHANGED <<clock, table, rules, last, inv>>

\* Somebody starts or stops the instance by hand, outside the function.
Operator ==
  /\ rds_status \in {"stopped", "available"}
  /\ rds_status' = IF rds_status = "stopped" THEN "starting" ELSE "stopping"
  /\ UNCHANGED <<clock, table, rules, last, inv>>

Init ==
  /\ clock = Epoch
  /\ table = {}
  /\ rds_status \in Statuses
  /\ rules = [n \in RuleNames |-> NoRule]
  /\ last = NoInvocation
  /\ inv = 0

Next == Invoke \/ Settle \/ Operator

Spec == Init /\ [][Next]_vars

(* ------------------- the self-scheduled cycle alone -------------------- *)
\* The function is invoked by hand once, on an empty table, at some instant of
\* a minute or so; after that only the rules it created invoke it, each at the
\* instant its cron expression spells and once only, the instance having
\* finished its transition by then, and every describe call succeeds.
InitCycle ==
  /\ clock \in {Epoch + o : o \in 0..MaxOffset}
  /\ table = {}
  /\ rds_status = "stopped"
  /\ rules = [n \in RuleNames |-> NoRule]
  /\ last = NoInvocation
  /\ inv = 0

FirstInvoke ==
  /\ inv = 0
  /\ lambda_handler("manual", clock, 0, TRUE)

Pending(name) == rules[name] # NoRule /\ FireTime(rules[name]) > clock

RuleFires ==
  /\ inv > 0
  /\ inv < MaxCycleInv
  /\ rds_status \in {"stopped", "available"}
  /\ \E name \in RuleNames :
       /\ Pending(name)
       /\ \A other \in RuleNames :
            Pending(other) => FireTime(rules[name]) <= FireTime(rules[other])
       /\ lambda_handler(name, FireTime(rules[name]), 0, TRUE)

NextCycle == FirstInvoke \/ RuleFires \/ Settle

SpecCycle == InitCycle /\ [][NextCycle]_vars

(* ---------------------- log_state_change on its own -------------------- *)
\* A history of n rows, STOP_AFTER_MINUTES apart, as failed and successful
\* describe calls on a stopped instance leave it.
History(n) ==
  {[Timestamp |-> strftime(Epoch) - k * STOP_AFTER_MINUTES * 60,
    State |-> IF k % 2 = 0 THEN "stopped" ELSE "unknown"] : k \in 1..n}

InitLog ==
  /\ clock = Epoch
  /\ table \in {History(n) : n \in {0, MAX_ROWS - 1, MAX_ROWS}}
  /\ rds_status = "stopped"
  /\ rules = [n \in RuleNames |-> NoRule]
  /\ last = NoInvocation
  /\ inv = 0

\* The instants a write is stamped with: the clock, or, relative to the rows
\* there are, the second of the latest row, the second after it, the second
\* before the oldest row (a pass whose now was read before the others wrote).
LogTimes ==
  IF table = {} THEN {clock}
  ELSE {strptime(LatestItem(table).Timestamp) + 1,
        strptime(LatestItem(table).Timestamp) + SecTicks,
        strptime(OldestItem(table).Timestamp) - SecTicks}

LogWrite ==
  /\ inv < MaxLogWrites
  /\ \E new_state \in Statuses \cup {"unknown"}, timestamp \in LogTimes :
       LET store == log_state_change(NoStore(table), new_state, timestamp)
       IN  /\ table' = store.rows
           /\ clock' = timestamp
           /\ inv' = inv + 1
           /\ last' = [NoInvocation EXCEPT !.trigger = "log_state_change",
                                           !.now = timestamp,
                                           !.state = new_state,
                                           !.before = table,
                                           !.rows = store.rows,
                                           !.ops = store.log]
           /\ UNCHANGED <<rds_status, rules>>

NextLog == LogWrite

SpecLog == InitLog /\ [][NextLog]_vars

(* ------------------ the function with failing calls ------------------- *)
lambda_handlerF(trigger, now, F) ==
  \E h \in {HandlerF(table, rules, rds_status, F, now, now)} :
      /\ clock' = now
      /\ table' = h.rows
      /\ rules' = h.rules
      /\ rds_status' = AfterCommands(rds_status, h.done)
      /\ inv' = inv + 1
      /\ last' = [trigger |-> trigger, now |-> now, describe_ok |-> F.describe_ok,
                  before |-> table, status |-> rds_status,
                  quiet |-> IF Quiet(h) THEN last.quiet + 1 ELSE 0]
                 @@ HistoryAfter(h, F, now) @@ Observed(h)

\* A pass with any of its calls raising (a flag for a call the pass does not
\* make changes nothing, and is left set).
InvokeF ==
  /\ inv < MaxFaultInv
  /\ \E d \in Delays, F \in Faults :
       \E h \in {HandlerF(table, rules, rds_status, F, clock + d, clock + d)} :
           /\ F.latest_ok \/ (F.describe_ok /\ F.cmd_ok /\ F.sched_ok /\ F.sns_ok)
           /\ h.cmds # << >> \/ F.cmd_ok
           /\ h.sched # << >> \/ F.sched_ok
           /\ h.sns # << >> \/ F.sns_ok
           /\ lambda_handlerF("manual", clock + d, F)

InitF ==
  /\ clock = Epoch
  /\ table = {}
  /\ rds_status \in Statuses
  /\ rules = [n \in RuleNames |-> NoRule]
  /\ last = NoInvocation
  /\ inv = 0

NextF == InvokeF \/ Settle

SpecF == InitF /\ [][NextF]_vars

(* ----------------------- two overlapping invocations ------------------- *)
\* Two invocations of lambda_handler run call by call, in any interleaving, on
\* a table that holds the record of the last transition, old enough for the
\* next one.  In this specification last holds the frame of each invocation (its
\* place in the handler and its local variables), the last command the
\* instance accepted, and whether the two invocations overlapped.
Procs == {"A", "B"}

\* The instants, after the previous reading of the clock, at which an
\* invocation reads it (line 30).
ConcDelays == {0, 1, SecTicks}

IdleFrame ==
  [pc |-> "idle", now |-> 0, read |-> [Timestamp |-> 0, State |-> "none"],
   elapsed |-> 0, live |-> "none", state |-> "none", branch |-> "none",
   crashed |-> FALSE]

InitConc ==
  /\ clock = Epoch
  /\ \E r \in {[Timestamp |-> strftime(Epoch - timedelta_days(START_AFTER_DAYS)),
                State |-> "stopped"],
               [Timestamp |-> strftime(Epoch - timedelta_minutes(STOP_AFTER_MINUTES)),
                State |-> "available"]} :
       table = {r} /\ rds_status = r.State
  /\ rules = [n \in RuleNames |-> NoRule]
  /\ last = [frames |-> [p \in Procs |-> IdleFrame],
             cmd |-> [kind |-> "none", at |-> 0],
             overlapped |-> FALSE]
  /\ inv = 0

\* start_db_instance raises InvalidDBInstanceState unless the instance is
\* stopped, stop_db_instance unless it is available.
CommandAccepted(cmd, status) ==
  \/ cmd = "start_db_instance" /\ status = "stopped"
  \/ cmd = "stop_db_instance" /\ status = "available"

\* Where the handler goes on after the drift check.
AfterDrift(branch) ==
  CASE branch = "start" -> "start_write"
    [] branch = "stop"  -> "stop_cmd"
    [] OTHER -> "publish"

InFlight(f) == f.pc \notin {"idle", "done"}

\* now = datetime.now()
Begin(p) ==
  /\ last.frames[p].pc = "idle"
  /\ \E d \in ConcDelays :
       /\ clock' = clock + d
       /\ last' = [last EXCEPT
                     !.frames[p] = [@ EXCEPT !.pc = "get_latest", !.now = clock + d],
                     !.overlapped = @ \/ \E q \in Procs \ {p} : InFlight(last.frames[q])]
  /\ UNCHANGED <<table, rds_status, rules, inv>>

\* last_state = get_latest_state(table, "RDSControl")
GetLatest(p) ==
  /\ last.frames[p].pc = "get_latest"
  /\ LET f == last.frames[p]
         g == get_latest_state(NoStore(table), f.now)
     IN  /\ table' = g.store.rows
         /\ last' = [last EXCEPT !.frames[p] =
                       [f EXCEPT !.pc = "describe", !.read = g.item,
                                 !.elapsed = f.now - strptime(g.item.Timestamp)]]
  /\ UNCHANGED <<clock, rds_status, rules, inv>>

\* current_rds_state = get_rds_instance_current_status(rds, RDS_INSTANCE_ID)
Describe(p) ==
  /\ last.frames[p].pc = "describe"
  /\ LET f == last.frames[p]
         live == get_rds_instance_current_status(rds_status, TRUE)
         state == AdoptedState(live, f.read.State)
         branch == Branch(state, f.elapsed)
     IN  last' = [last EXCEPT !.frames[p] =
                    [f EXCEPT !.live = live, !.state = state, !.branch = branch,
                              !.pc = IF Drifted(live, f.read.State) THEN "drift"
                                     ELSE AfterDrift(branch)]]
  /\ UNCHANGED <<clock, table, rds_status, rules, inv>>

\* log_state_change(table, current_rds_state, now)
DriftWrite(p) ==
  /\ last.frames[p].pc = "drift"
  /\ LET f == last.frames[p]
     IN  /\ table' = log_state_change(NoStore(table), f.live, f.now).rows
         /\ last' = [last EXCEPT !.frames[p].pc = AfterDrift(f.branch)]
  /\ UNCHANGED <<clock, rds_status, rules, inv>>

\* log_state_change(table, "available", now)
StartWrite(p) ==
  /\ last.frames[p].pc = "start_write"
  /\ table' = log_state_change(NoStore(table), "available", last.frames[p].now).rows
  /\ last' = [last EXCEPT !.frames[p].pc = "start_cmd"]
  /\ UNCHANGED <<clock, rds_status, rules, inv>>

\* A command: accepted, or raising, which ends the invocation.
Command(p, cmd, next_pc) ==
  IF CommandAccepted(cmd, rds_status)
  THEN /\ rds_status' = AfterCommands(rds_status, <<cmd>>)
       /\ last' = [last EXCEPT !.frames[p].pc = next_pc,
                               !.cmd = [kind |-> cmd, at |-> last.frames[p].now]]
       /\ UNCHANGED <<clock, table, rules, inv>>
  ELSE /\ last' = [last EXCEPT !.frames[p].pc = "done", !.frames[p].crashed = TRUE]
       /\ inv' = inv + 1
       /\ UNCHANGED <<clock, table, rds_status, rules>>

\* rds.start_db_instance(DBInstanceIdentifier=RDS_INSTANCE_ID)
StartCmd(p) ==
  /\ last.frames[p].pc = "start_cmd"
  /\ Command(p, "start_db_instance", "schedule")

\* rds.stop_db_instance(DBInstanceIdentifier=RDS_INSTANCE_ID)
StopCmd(p) ==
  /\ last.frames[p].pc = "stop_cmd"
  /\ Command(p, "stop_db_instance", "stop_write")

\* log_state_change(table, "stopped", now)
StopWrite(p) ==
  /\ last.frames[p].pc = "stop_write"
  /\ table' = log_state_change(NoStore(table), "stopped", last.frames[p].now).rows
  /\ last' = [last EXCEPT !.frames[p].pc = "schedule"]
  /\ UNCHANGED <<clock, rds_status, rules, inv>>

\* schedule_next_event(...)
Schedule(p) ==
  /\ last.frames[p].pc = "schedule"
  /\ LET f == last.frames[p]
     IN  rules' = IF f.branch = "start"
                  THEN schedule_next_event(rules, "stop-instance",
                                           STOP_AFTER_MINUTES, f.now)
                  ELSE schedule_next_event(rules, "start-instance",
                                           START_AFTER_DAYS * 1440, f.now)
  /\ last' = [last EXCEPT !.frames[p].pc = "publish"]
  /\ UNCHANGED <<clock, table, rds_status, inv>>

\* publish_sns_message(...) and return
Publish(p) ==
  /\ last.frames[p].pc = "publish"
  /\ last' = [last EXCEPT !.frames[p].pc = "done"]
  /\ inv' = inv + 1
  /\ UNCHANGED <<clock, table, rds_status, rules>>

\* The instance finishes a transition while the invocations run.
SettleConc ==
  /\ rds_status \in {"starting", "stopping"}
  /\ rds_status' = IF rds_status = "starting" THEN "available" ELSE "stopped"
  /\ UNCHANGED <<clock, table, rules, last, inv>>

NextConc ==
  \/ \E p \in Procs : Begin(p)
  \/ \E p \in Procs : GetLatest(p)
  \/ \E p \in Procs : Describe(p)
  \/ \E p \in Procs : DriftWrite(p)
  \/ \E p \in Procs : StartWrite(p)
  \/ \E p \in Procs : StartCmd(p)
  \/ \E p \in Procs : StopCmd(p)
  \/ \E p \in Procs : StopWrite(p)
  \/ \E p \in Procs : Schedule(p)
  \/ \E p \in Procs : Publish(p)
  \/ SettleConc

SpecConc == InitConc /\ [][NextConc]_vars

(* ============================== the claims ============================= *)
StartIssued == "start_db_instance" \in {last.cmds[i] : i \in DOMAIN last.cmds}
StopIssued  == "stop_db_instance" \in {last.cmds[i] : i \in DOMAIN last.cmds}

\* The state of the pass as the claims describe it: the persisted state, or the
\* live status where the two differ.
CurrentState == IF last.live # last.read.State THEN last.live ELSE last.read.State
\* Elapsed time since the Timestamp of the record the pass read, in ticks.
Elapsed == last.now - last.read.Timestamp * SecTicks
StartAfterTicks == START_AFTER_DAYS * 24 * 60 * 60 * SecTicks
StopAfterTicks == STOP_AFTER_MINUTES * 60 * SecTicks
NowItem(state) == [Timestamp |-> last.now \div SecTicks, State |-> state]
TheLatest == CHOOSE r \in table : \A q \in table : q.Timestamp <= r.Timestamp
\* A rule armed for the minute of now + delay: not after it, less than a minute before.
ArmedFor(name, delay) ==
  /\ rules[name] # NoRule
  /\ FireTime(rules[name]) <= last.now + delay
  /\ FireTime(rules[name]) > last.now + delay - 60 * SecTicks
  /\ FireTime(rules[name]) % (60 * SecTicks) = 0

\* C1: every invocation returns as "state" the State of the latest record in the
\* table when it ends; one that issues start returns "available" with the timestamp
\* of now, one that issues stop returns "stopped".
C1_ReturnsFinalState ==
  inv > 0 =>
    /\ last.result.state = TheLatest.State
    /\ StartIssued =>
         last.result = [state |-> "available", timestamp |-> last.now \div SecTicks]
    /\ StopIssued => last.result.state = "stopped"

\* C2: start is issued exactly when the current state of the pass is "stopped" and
\* the record read is at least START_AFTER_DAYS days old; it is then issued once,
\* without a stop, the latest record becomes ("available", now), the stop rule is
\* armed STOP_AFTER_MINUTES after now and the "started" notification is published.
C2_StartRule ==
  inv > 0 =>
    /\ StartIssued <=> (CurrentState = "stopped" /\ Elapsed >= StartAfterTicks)
    /\ StartIssued =>
         /\ last.cmds = <<"start_db_instance">>
         /\ TheLatest = NowItem("available")
         /\ last.sched = <<"stop-instance-lambda-trigger">>
         /\ ArmedFor("stop-instance-lambda-trigger", StopAfterTicks)
         /\ last.sns = <<"RDS Manager - Instance Started">>

\* C2 witness: a start issued on a record that is not the bootstrap one and is
\* exactly START_AFTER_DAYS days old.
C2_Witness ==
  inv > 0 /\ StartIssued /\ ~last.boot /\ Elapsed = StartAfterTicks

\* C3: stop is issued exactly when start is not, the current state of the pass is
\* "available" and the record read is at least STOP_AFTER_MINUTES minutes old; it
\* is then issued once, the latest record becomes ("stopped", now), the start rule
\* is armed START_AFTER_DAYS days after now and the "stopped" notification is
\* published; no invocation issues both commands.
C3_StopRule ==
  inv > 0 =>
    /\ StopIssued <=>
         /\ ~(CurrentState = "stopped" /\ Elapsed >= StartAfterTicks)
         /\ CurrentState = "available"
         /\ Elapsed >= StopAfterTicks
    /\ ~(StartIssued /\ StopIssued)
    /\ StopIssued =>
         /\ last.cmds = <<"stop_db_instance">>
         /\ TheLatest = NowItem("stopped")
         /\ last.sched = <<"start-instance-lambda-trigger">>
         /\ ArmedFor("start-instance-lambda-trigger", StartAfterTicks)
         /\ last.sns = <<"RDS Manager - Instance Stopped">>

\* C3 witness: a stop issued on a record exactly STOP_AFTER_MINUTES minutes old,
\* with no drift.
C3_Witness ==
  inv > 0 /\ StopIssued /\ Elapsed = StopAfterTicks /\ last.read.State = "available"

\* C4: an invocation that finds no record creates one with State "stopped" and a
\* Timestamp more than START_AFTER_DAYS days before now, and issues start (not
\* stop, not the no-action branch), whatever the live status.
C4_Bootstrap ==
  (inv > 0 /\ last.boot) =>
    /\ last.read.State = "stopped"
    /\ Elapsed > StartAfterTicks
    /\ last.read \in table \/ last.ops[1].item = last.read
    /\ last.cmds = <<"start_db_instance">>

\* C5 as claimed: persisted "stopped", live "available": start is not called and
\* the invocation ends with latest State "available", for any elapsed time.
C5_DriftAsClaimed ==
  (inv > 0 /\ last.read.State = "stopped" /\ last.live = "available") =>
    /\ ~StartIssued
    /\ TheLatest.State = "available"

\* C5 amended: persisted "stopped", live "available": start is not called and the
\* first call on the table writes (now, "available") without any command before
\* it; if the record read is less than STOP_AFTER_MINUTES minutes old the pass
\* ends there, with latest State "available" and no command; otherwise the same
\* pass issues stop and ends with latest State "stopped".
C5_Drift ==
  (inv > 0 /\ last.read.State = "stopped" /\ last.live = "available") =>
    /\ ~StartIssued
    /\ \E i \in DOMAIN last.ops :
         /\ last.ops[i].op = "put" /\ last.ops[i].item = NowItem("available")
         /\ \A j \in 1..(i-1) : last.ops[j].item = last.read
    /\ IF Elapsed < StopAfterTicks
       THEN last.cmds = << >> /\ TheLatest = NowItem("available")
       ELSE last.cmds = <<"stop_db_instance">> /\ TheLatest = NowItem("stopped")

\* C5 witness: drift from a real (not bootstrap) "stopped" record, young enough for
\* the pass to end with "available".
C5_Witness ==
  /\ inv > 0 /\ ~last.boot
  /\ last.read.State = "stopped" /\ last.live = "available"
  /\ Elapsed < StopAfterTicks
  /\ TheLatest = NowItem("available")

\* C6: in the cycle driven by the rules alone, the invocation fired by the stop
\* rule issues stop and arms the start rule, and the invocation fired by the
\* start rule issues start and arms the stop rule (so that the cycle never ends).
C6_Cycle ==
  /\ last.trigger = "stop-instance-lambda-trigger" =>
        StopIssued /\ Pending("start-instance-lambda-trigger")
  /\ last.trigger = "start-instance-lambda-trigger" =>
        StartIssued /\ Pending("stop-instance-lambda-trigger")

\* C7: an invocation that finds the latest record "available", the live status
\* "available" and the record less than STOP_AFTER_MINUTES minutes old issues no
\* command, makes no call that writes or deletes a row, leaves the table and the
\* rules as they were and returns state "available"; so does every repetition.
C7_IdempotentNoOp ==
  [][ ( /\ inv' = inv + 1
        /\ table # {}
        /\ TheLatest.State = "available"
        /\ last'.live = "available"
        /\ last'.now - TheLatest.Timestamp * SecTicks < StopAfterTicks )
      => ( /\ table' = table
           /\ rules' = rules
           /\ rds_status' = rds_status
           /\ last'.cmds = << >>
           /\ last'.ops = << >>
           /\ last'.sched = << >>
           /\ last'.result.state = "available" ) ]_vars

\* C7 witness: the second of two such invocations in a row.
C7_Witness ==
  /\ last.quiet >= 2
  /\ last.read.State = "available" /\ last.live = "available"
  /\ Elapsed < StopAfterTicks

\* C8: when the describe call fails the status is "unknown", neither branch is
\* taken (no command, no rule) and the invocation returns its result, whatever
\* the persisted state and the elapsed time.
C8_StatusCheckFailure ==
  (inv > 0 /\ ~last.describe_ok) =>
    /\ last.live = "unknown"
    /\ last.cmds = << >>
    /\ last.sched = << >>
    /\ last.sns = <<"RDS Manager - No Action Taken">>
    /\ last.result = [state |-> "unknown", timestamp |-> last.now \div SecTicks]

\* C8 witness: a failed describe call on a "stopped" record old enough to start.
C8_Witness ==
  /\ inv > 0 /\ ~last.describe_ok
  /\ last.read.State = "stopped" /\ Elapsed >= StartAfterTicks

\* C9: a write that takes the rows above MAX_ROWS is followed by one delete, of
\* the oldest row; any other write by none; the count never exceeds MAX_ROWS.
C9_RetentionBound ==
  /\ Cardinality(table) <= MAX_ROWS
  /\ inv > 0 =>
       LET item == NowItem(last.state)
           afterPut == {r \in last.before : r.Timestamp # item.Timestamp} \cup {item}
           deletes == {i \in DOMAIN last.ops : last.ops[i].op = "delete"}
       IN  /\ last.ops[1].op = "put" /\ last.ops[1].item = item
           /\ IF Cardinality(afterPut) > MAX_ROWS
              THEN /\ Cardinality(deletes) = 1
                   /\ \A i \in deletes :
                        /\ i = 2
                        /\ last.ops[i].item \in afterPut
                        /\ \A q \in afterPut :
                             q.Timestamp >= last.ops[i].item.Timestamp
                        /\ table = afterPut \ {last.ops[i].item}
              ELSE deletes = {} /\ table = afterPut
           /\ Len(last.ops) = 1 + Cardinality(deletes)

\* C9 witness: the second write in a row that went over the bound and was
\* trimmed back to MAX_ROWS rows.
C9_Witness ==
  /\ inv >= 2
  /\ Len(last.ops) = 2 /\ last.ops[2].op = "delete"
  /\ Cardinality(last.before) = MAX_ROWS
  /\ Cardinality(table) = MAX_ROWS

\* C10: no call replaces a row written earlier (not even a second write of the
\* same invocation), and a row leaves the table only as the oldest row deleted
\* by the retention trimming.
C10_AppendOnly ==
  inv > 0 =>
    /\ \A i \in DOMAIN last.ops :
         last.ops[i].op = "put" => last.ops[i].replaced \subseteq {last.ops[i].item}
    /\ \A r \in last.before :
         r \in table \/ \E i \in DOMAIN last.ops :
                           last.ops[i].op = "delete" /\ last.ops[i].item = r

\* C11: when the query for the latest record or the bootstrap insert raises, the
\* invocation ends with an error: no result, no command, no call that writes a
\* row, no rule, no notification, and no state is assumed in place of the record.
C11_ReadFailureFatal ==
  (inv > 0 /\ "latest" \in last.faults) =>
    /\ last.crashed
    /\ last.result = NoResult
    /\ last.state = "none" /\ last.branch = "none"
    /\ last.cmds = << >>
    /\ last.ops = << >> /\ table = last.before
    /\ last.sched = << >>
    /\ last.sns = << >>

\* C11 witness: the read fails on an empty table while the instance is stopped,
\* where a bootstrap default would have led to a start.
C11_Witness ==
  inv > 0 /\ "latest" \in last.faults /\ last.before = {} /\ last.status = "stopped"

\* C12: when put_rule or publish (or both) raise in an invocation that issued
\* start or stop, the command stays issued, the new record stays the latest
\* one, publish is still called after a failed put_rule, and the invocation
\* returns its result.
C12_BestEffort ==
  (inv > 0 /\ last.done # << >> /\ last.faults \cap {"sched", "sns"} # {}) =>
    /\ ~last.crashed
    /\ last.result # NoResult /\ last.result.timestamp = last.now \div SecTicks
    /\ last.done = last.cmds
    /\ IF last.done = <<"start_db_instance">>
       THEN /\ TheLatest = NowItem("available")
            /\ rds_status \in {"starting", "available"}
            /\ last.sns = <<"RDS Manager - Instance Started">>
       ELSE /\ TheLatest = NowItem("stopped")
            /\ rds_status \in {"stopping", "stopped"}
            /\ last.sns = <<"RDS Manager - Instance Stopped">>
    /\ Len(last.sched) = 1
    /\ "sns" \in last.faults <=> last.delivered = << >>

\* C12 witness: a stop whose put_rule and publish both raise.
C12_Witness ==
  /\ inv > 0 /\ last.done = <<"stop_db_instance">>
  /\ {"sched", "sns"} \subseteq last.faults

\* C14: after an invocation whose start (stop) command raised, the next
\* invocation that reads the record and finds the instance still stopped
\* (available) calls the same command again.
C14_RecoveryByNextTrigger ==
  (inv > 0 /\ "latest" \notin last.faults) =>
    /\ (last.prev_failed = "start_db_instance" /\ last.live = "stopped")
         => last.cmds = <<"start_db_instance">>
    /\ (last.prev_failed = "stop_db_instance" /\ last.live = "available")
         => last.cmds = <<"stop_db_instance">>

\* C15: once a start has been issued at T and no command since, an invocation
\* that runs at or after T + STOP_AFTER_MINUTES and finds the instance available
\* issues stop, whatever the invocations in between observed and recorded.
C15_ElapsedSinceLastAction ==
  ( /\ inv > 0
    /\ last.prev_act.cmd = "start_db_instance"
    /\ last.now >= last.prev_act.at + StopAfterTicks
    /\ last.live = "available" )
  => StopIssued

C13_RoundTripAsClaimed ==
  inv > 0 =>
    get_latest_state(NoStore(table), clock).item = NowItem(last.state)

\* C13 amended: after log_state_change has written (State, Timestamp), with no
\* row of a later Timestamp in the table, get_latest_state returns exactly that
\* State and that Timestamp and writes nothing.
C13_RoundTrip ==
  (inv > 0 /\ \A r \in last.before : r.Timestamp <= last.now \div SecTicks) =>
    LET g == get_latest_state(NoStore(table), clock)
    IN  /\ g.item = NowItem(last.state)
        /\ ~g.boot
        /\ g.store = NoStore(table)

\* C13 witness: the write replaced the row of the same second, which held another
\* State, in a table of several rows.
C13_Witness ==
  /\ inv > 0
  /\ \A r \in last.before : r.Timestamp <= last.now \div SecTicks
  /\ \E r \in last.ops[1].replaced : r.State # last.state
  /\ Cardinality(table) > 1

\* C18: the rule a pass creates fires at now + delay with the seconds dropped: at
\* the start of a minute, not after now + delay and less than 60 seconds before
\* it; and its expression spells that one minute and no other.
C18_NextTriggerTime ==
  \A n \in RuleNames :
    (inv > 0 /\ last.sched = <<n>>) =>
      LET delay == IF n = "stop-instance-lambda-trigger"
                   THEN STOP_AFTER_MINUTES * 60 * SecTicks
                   ELSE START_AFTER_DAYS * 1440 * 60 * SecTicks
          due == last.now + delay
          fire == FireTime(rules[n])
      IN  /\ fire = due - (due % (60 * SecTicks))
          /\ fire <= due
          /\ due - fire < 60 * SecTicks
          /\ \A t \in {fire - 1, fire, fire + 60 * SecTicks - 1, fire + 60 * SecTicks} :
               (cron_expression(t) = rules[n]) <=> (fire <= t /\ t < fire + 60 * SecTicks)

\* C18 witness: the start rule created by a pass that ran 59 seconds and a
\* fraction into a minute.
C18_Witness ==
  /\ inv > 0 /\ last.sched = <<"start-instance-lambda-trigger">>
  /\ last.now % (60 * SecTicks) > 59 * SecTicks

\* C16: when two invocations that overlapped have both finished, the latest
\* record has the State of the last command the instance accepted ("available"
\* after a start, "stopped" after a stop) and the Timestamp of the invocation
\* that issued it.
C16_OverlapKeepsState ==
  ( /\ \A p \in Procs : last.frames[p].pc = "done"
    /\ last.overlapped
    /\ last.cmd.kind # "none" )
  => TheLatest = [Timestamp |-> strftime(last.cmd.at),
                  State |-> IF last.cmd.kind = "start_db_instance"
                            THEN "available" ELSE "stopped"]

====
